---- MODULE Spec2Model ----
(***************************************************************************)
(* The dev-mode watcher of nexus (createWatcher): the busy-guard           *)
(* `restarting`, the init cycle, restart(change), the watcher listeners    *)
(* (global and per plugin), the link's readiness callback and the plugin   *)
(* controls (restart / pause / resume).                                    *)
(*                                                                         *)
(* JavaScript runs one handler at a time: every action below is one        *)
(* synchronous segment of a handler, from its entry (or the resumption of  *)
(* an await) to its next await (or its end).                               *)
(***************************************************************************)
EXTENDS Integers, Sequences, FiniteSets, TLC

(* ------------------------------ bounds -------------------------------- *)
\* the longest allow list and the longest ignore list a matcher is built from
MaxPatterns == 2
\* number of registered plugins (options.plugins)
NumPlugins == 2
\* cycles (the init cycle included) the model lets pass the busy-guard
MaxCycles == 2
\* the restart calls in a row the model counts as turned away by the
\* busy-guard (the count saturates)
MaxDropped == 2

Plugins == 1 .. NumPlugins

(* ------------------------------ paths --------------------------------- *)
\* A path is a sequence of segments, a segment a sequence of dot-separated
\* parts: src/a.test.ts is << <<"src">>, <<"a","test","ts">> >>.
SrcATs == << <<"src">>, <<"a", "ts">> >>
SrcATestTs == << <<"src">>, <<"a", "test", "ts">> >>
TsConfigJson == << <<"tsconfig", "json">> >>
LibATs == << <<"lib">>, <<"a", "ts">> >>

\* the files the watcher reports
Files == {SrcATs, SrcATestTs, TsConfigJson}

\* the paths a matcher is asked about: the watched files and one outside
\* the source root
Paths == Files \cup {LibATs}

\* compiler.tsConfigPath
tsConfigPath == TsConfigJson

\* the `file: null` of the init event
NoFile == << >>

\* chokidar's event types, as far as the code distinguishes them (it does not)
Kinds == {"change"}

(* ------------------------------ globs --------------------------------- *)
\* A pattern is a sequence of segment patterns; <<"**">> is the globstar,
\* "*" inside a segment matches one or more parts of a file name.
GlobSrcTs == << <<"src">>, <<"**">>, <<"*", "ts">> >>
GlobSrcTestTs == << <<"src">>, <<"**">>, <<"*", "test", "ts">> >>
GlobSrcAll == << <<"src">>, <<"**">> >>

RECURSIVE SegMatch(_, _)
SegMatch(sp, seg) ==
  IF sp = << >> THEN seg = << >>
  ELSE IF seg = << >> THEN FALSE
  ELSE IF Head(sp) = "*"
       THEN SegMatch(Tail(sp), Tail(seg)) \/ SegMatch(sp, Tail(seg))
       ELSE Head(sp) = Head(seg) /\ SegMatch(Tail(sp), Tail(seg))

RECURSIVE GlobMatch(_, _)
GlobMatch(pat, path) ==
  IF pat = << >> THEN path = << >>
  ELSE IF Head(pat) = <<"**">>
       THEN GlobMatch(Tail(pat), path)
            \/ (path # << >> /\ GlobMatch(pat, Tail(path)))
       ELSE path # << >>
            /\ SegMatch(Head(pat), Head(path))
            /\ GlobMatch(Tail(pat), Tail(path))

\* The globs the plugins use, each matched once against each file.
Globs == {GlobSrcTs, GlobSrcTestTs, GlobSrcAll}
GlobTable == [g \in Globs, f \in Paths |-> GlobMatch(g, f)]

\* anymatch without its negated matchers: a variant that lets allow win.
AllowOnly(toAllow, negated, file) ==
  \E k \in 1 .. Len(toAllow) : GlobTable[toAllow[k], file]

\* anymatch(matchers)(file): a matcher "!p" rejects the file when p matches;
\* otherwise the file matches when one of the other matchers matches it.
AnyMatch(toAllow, negated, file) ==
  /\ \A k \in 1 .. Len(negated) : ~GlobTable[negated[k], file]
  /\ \E k \in 1 .. Len(toAllow) : GlobTable[toAllow[k], file]

\* createPathMatcher({toMatch, toIgnore})(file); a missing toMatch or
\* toIgnore is the empty list (`?? []`), the ignore patterns are the
\* negated matchers ('!' + pattern).
createPathMatcher(toMatch, toIgnore, file) == AnyMatch(toMatch, toIgnore, file)

(* ----------------------------- plugins -------------------------------- *)
\* plugin.dev of a plugin: which hooks it defines and its watcher settings.
\*   handler   - onFileWatcherEvent is defined
\*   hooks     - onBeforeWatcherStartOrRestart, onBeforeWatcherRestart and
\*               onAfterWatcherRestart are defined
\*   asyncBeforeRestart - onBeforeWatcherRestart returns an awaitable that is
\*               still pending when the call returns
\*   allow     - addToWatcherSettings.listeners.plugin.allowFilePatterns
\*   ignore    - addToWatcherSettings.listeners.plugin.ignoreFilePatterns
\*   appIgnore - addToWatcherSettings.listeners.app.ignoreFilePatterns
PluginTs ==
  [handler |-> TRUE, hooks |-> TRUE, asyncBeforeRestart |-> FALSE, allow |-> <<GlobSrcTs>>,
   ignore |-> <<GlobSrcTestTs>>, appIgnore |-> << >>]
PluginNoAllow ==
  [handler |-> TRUE, hooks |-> TRUE, asyncBeforeRestart |-> TRUE, allow |-> << >>,
   ignore |-> <<GlobSrcTestTs>>, appIgnore |-> << >>]
PluginAppIgnore ==
  [handler |-> FALSE, hooks |-> FALSE, asyncBeforeRestart |-> FALSE, allow |-> << >>,
   ignore |-> << >>, appIgnore |-> <<GlobSrcAll>>]

\* The registrations the model starts from: every plugin with hooks and a
\* listener; the first plugin without hooks or listener, contributing an
\* app ignore pattern; the last plugin with a listener without allow patterns
\* and an asynchronous onBeforeWatcherRestart.
Configs ==
  { [p \in Plugins |-> PluginTs],
    [p \in Plugins |-> IF p = 1 THEN PluginAppIgnore ELSE PluginTs],
    [p \in Plugins |-> IF p = NumPlugins THEN PluginNoAllow ELSE PluginTs] }

VARIABLES
  plugins,      \* options.plugins: the registered plugins, in registration order
  restarting,   \* the busy-guard flag
  paused,       \* the watcher's paused state (watcher.pause / watcher.resume)
  cycles,       \* every cycle that passed the busy-guard, oldest first
  linkOptions,  \* the link's options (updateOptions merges into them)
  child,        \* the cycle whose startOrRestart spawned the running child, 0 if none
  gotControls,  \* devModePluginLens was handed to some plugin's onFileWatcherEvent
  dropped,      \* the restart calls turned away in a row ('restart already in
                \* progress'), up to the last step
  dispatch,     \* the watch event of the last step and what the listeners did with it
  matcher,      \* a createPathMatcher call on its own: its arguments, the
                \* path asked about and the answer
  promise       \* the state of the promise createWatcher returned

vars == <<plugins, restarting, paused, cycles, linkOptions, child, gotControls,
          dropped, dispatch, matcher, promise>>

(* --------------------------- link options ----------------------------- *)
\* The link's options before any plugin patched them.
NoOptions == [environmentAdditions |-> 0]

\* The runner changes plugin p's onBeforeWatcherStartOrRestart returns when
\* it returns any: each plugin's patch is its own.
RunnerChanges(p) == [environmentAdditions |-> p]

\* link.updateOptions(patch): the patch's keys replace the options' keys.
updateOptions(opts, patch) ==
  [k \in DOMAIN opts |-> IF k \in DOMAIN patch THEN patch[k] ELSE opts[k]]

\* What awaiting plugin p's onBeforeWatcherStartOrRestart can give: nothing,
\* runner changes, or an exception (thrown, or a rejected promise).
Outcomes(p) == IF plugins[p].hooks THEN {"none", "patch", "throw"} ELSE {"none"}

\* if (runnerChanges) { link.updateOptions(runnerChanges) }
SkipRunnerChanges(opts, outcome, p) == opts
ApplyRunnerChanges(opts, outcome, p) ==
  IF outcome = "patch" THEN updateOptions(opts, RunnerChanges(p)) ELSE opts

(* ------------------------------ cycles -------------------------------- *)
\* A call the orchestrator made: <<what, plugin (0 if none), the link's
\* options at that moment>> (the options are recorded for the calls a cycle
\* makes itself, up to link.startOrRestart).
Call(what, p, opts) == <<what, p, opts>>

\* The plugins that define the lifecycle hooks, in registration order, up to
\* plugin t.
HookedUpTo(t) ==
  SelectSeq([k \in 1 .. NumPlugins |-> k], LAMBDA k : plugins[k].hooks /\ k <= t)

\* plugin.dev.onBeforeWatcherStartOrRestart?.(change)
CallStartOrRestartHook(p, opts) ==
  IF plugins[p].hooks THEN << Call("SOR", p, opts) >> ELSE << >>

\* The calls of one resumption of the first loop: link.updateOptions when
\* the hook of plugin p returned runner changes (opts are the options after
\* it), then the next plugin's hook if there is one.
UpdateCall(outcome, p, opts) ==
  IF outcome = "patch" THEN << Call("update", p, opts) >> ELSE << >>

\* plugins.forEach((p) => p.dev.onBeforeWatcherRestart?.()), as far as
\* plugin t (the one that throws, or the last one)
BeforeRestartCalls(t, opts) ==
  LET H == HookedUpTo(t) IN [k \in 1 .. Len(H) |-> Call("BR", H[k], opts)]

\* The awaitables the onBeforeWatcherRestart hooks returned to the forEach,
\* which drops them: those of the plugins called before plugin t threw (of
\* all plugins when t = 0).
Unawaited(t) ==
  {q \in Plugins : /\ plugins[q].hooks
                    /\ plugins[q].asyncBeforeRestart
                    /\ (t = 0 \/ q < t)}

\* options.plugins.forEach((p) => p.dev.onAfterWatcherRestart?.()), likewise
AfterRestartCalls(t, opts) ==
  LET H == HookedUpTo(t) IN [k \in 1 .. Len(H) |-> Call("AR", H[k], opts)]

\* if (change.file === compiler.tsConfigPath) compiler.init(options)
\* compiler.compileChanged(change.file)
CompileElse(file, opts) ==
  IF file = tsConfigPath THEN << Call("init", 0, opts) >>
  ELSE << Call("compileChanged", 0, opts) >>
CompileCalls(file, opts) ==
  (IF file = tsConfigPath THEN << Call("init", 0, opts) >> ELSE << >>)
  \o << Call("compileChanged", 0, opts) >>

\* link.startOrRestart()
StartCall(opts) == << Call("start", 0, opts) >>

\* restart(), from the end of the first loop to the await of startOrRestart,
\* when no onBeforeWatcherRestart throws.
CompileFirstTail(file, opts) ==
  CompileCalls(file, opts) \o BeforeRestartCalls(NumPlugins, opts) \o StartCall(opts)
RestartTail(file, opts) ==
  BeforeRestartCalls(NumPlugins, opts) \o CompileCalls(file, opts) \o StartCall(opts)

\* The initial start, from the end of its loop to the await of
\* startOrRestart (lines 178-179): link.startOrRestart() and nothing else.
InitTailAsRestart(opts) == BeforeRestartCalls(NumPlugins, opts) \o StartCall(opts)
InitTail(opts) == StartCall(opts)

\* The order of the for..of loop over the plugins.
FirstPlugin == 1
NextPlugin(p) == p + 1

\* A cycle at its first await: the busy-guard is set and the first plugin's
\* onBeforeWatcherStartOrRestart has been called.
NewCycle(change, opts) ==
  [change |-> change, pc |-> "awaitSOR", i |-> FirstPlugin,
   trace |-> CallStartOrRestartHook(FirstPlugin, opts),
   err |-> <<"none", 0>>, resets |-> 0, listening |-> FALSE, unawaited |-> {}]

InitEvent == [type |-> "init", file |-> NoFile]

\* if (restarting) { log.trace('restart already in progress'); return }
BusyGuardOff(flag) == FALSE
BusyGuard(flag) == flag

\* restarting = false (lines 180, 216): the flag's value after a cycle whose
\* link.startOrRestart was fulfilled.
GuardKept == TRUE
GuardAfterCycle == FALSE

\* restart(change, plugins) from its entry to its first await.
RestartCall(change) ==
  IF BusyGuard(restarting)
  THEN /\ dropped' = IF dropped < MaxDropped THEN dropped + 1 ELSE dropped
       /\ UNCHANGED <<restarting, cycles>>
  ELSE /\ Len(cycles) < MaxCycles
       /\ restarting' = TRUE
       /\ cycles' = Append(cycles, NewCycle(change, linkOptions))
       /\ dropped' = 0

\* Chok.watch: the watcher delivers events from its creation on; only
\* watcher.pause() stops the delivery, until watcher.resume().
WatcherStartsPaused == FALSE

NoDispatch ==
  [file |-> NoFile, restartCalled |-> FALSE, offered |-> {}, delivered |-> {},
   threw |-> 0]

\* new Promise(async (resolve, reject) => {...}), lines 37 and 218: the
\* executor is an async function that calls neither resolve nor reject; when
\* its body returns or throws, that settles the executor's own promise,
\* which the Promise constructor drops, and leaves the promise as it is.
ExecutorSettles(state, how) == IF how = "returned" THEN "fulfilled" ELSE "rejected"
ExecutorEnds(state, how) == state

\* no createPathMatcher call is looked at on its own
NoMatcher ==
  [toMatch |-> << >>, toIgnore |-> << >>, file |-> NoFile, asked |-> FALSE,
   answer |-> FALSE]

Init ==
  /\ plugins \in Configs
  /\ restarting = TRUE
  /\ paused = WatcherStartsPaused
  /\ linkOptions = NoOptions
  /\ cycles = << NewCycle(InitEvent, NoOptions) >>
  /\ child = 0
  /\ gotControls = FALSE
  /\ dropped = 0
  /\ dispatch = NoDispatch
  /\ matcher = NoMatcher
  /\ promise = "pending"

(* ------------------------- the init cycle ----------------------------- *)
\* createWatcher, lines 170-178: the await of plugin i's
\* onBeforeWatcherStartOrRestart({type: 'init', file: null}) resumes; the
\* loop goes on to the next plugin's hook, or leaves for link.startOrRestart().
InitHookResume(c, outcome) ==
  /\ c \in DOMAIN cycles
  /\ cycles[c].change.type = "init"
  /\ cycles[c].pc = "awaitSOR"
  /\ outcome \in Outcomes(cycles[c].i)
  /\ LET cy == cycles[c]
         p == cy.i
         opts == ApplyRunnerChanges(linkOptions, outcome, p)
     IN IF outcome = "throw"
        THEN /\ cycles' = [cycles EXCEPT ![c].pc = "failed", ![c].err = <<"SOR", p>>]
             /\ promise' = ExecutorEnds(promise, "threw")
             /\ UNCHANGED <<linkOptions, child>>
        ELSE /\ linkOptions' = opts
             /\ UNCHANGED promise
             /\ IF p < NumPlugins
                THEN /\ cycles' = [cycles EXCEPT
                          ![c].i = NextPlugin(p),
                          ![c].trace = cy.trace \o UpdateCall(outcome, p, opts)
                                         \o CallStartOrRestartHook(NextPlugin(p), opts)]
                     /\ UNCHANGED child
                ELSE /\ cycles' = [cycles EXCEPT
                          ![c].pc = "awaitLink",
                          ![c].trace = cy.trace \o UpdateCall(outcome, p, opts) \o InitTail(opts)]
                     /\ child' = 0
  /\ dispatch' = NoDispatch
  /\ dropped' = 0
  /\ UNCHANGED <<plugins, restarting, paused, gotControls, matcher>>

\* createWatcher, lines 179-180: the await of link.startOrRestart() resumes;
\* restarting = false runs only when the promise was fulfilled.
InitLinkSettle(c, ok) ==
  /\ c \in DOMAIN cycles
  /\ cycles[c].change.type = "init"
  /\ cycles[c].pc = "awaitLink"
  /\ IF ok
     THEN /\ restarting' = GuardAfterCycle
          /\ cycles' = [cycles EXCEPT ![c].pc = "done", ![c].resets = @ + 1]
          /\ child' = c
          /\ promise' = ExecutorEnds(promise, "returned")
     ELSE /\ cycles' = [cycles EXCEPT ![c].pc = "failed", ![c].err = <<"link", 0>>]
          /\ promise' = ExecutorEnds(promise, "threw")
          /\ UNCHANGED <<restarting, child>>
  /\ dispatch' = NoDispatch
  /\ dropped' = 0
  /\ UNCHANGED <<plugins, paused, linkOptions, gotControls, matcher>>

(* ------------------------ a restart cycle ----------------------------- *)
\* restart(), lines 197-215: the await of plugin i's
\* onBeforeWatcherStartOrRestart(change) resumes; after the last plugin the
\* onBeforeWatcherRestart hooks, the compiler and link.startOrRestart() are
\* called in one synchronous run. thrower is the plugin whose
\* onBeforeWatcherRestart throws, 0 when none does.
RestartHookResume(c, outcome, thrower) ==
  /\ c \in DOMAIN cycles
  /\ cycles[c].change.type # "init"
  /\ cycles[c].pc = "awaitSOR"
  /\ outcome \in Outcomes(cycles[c].i)
  /\ thrower \in {0} \cup {q \in Plugins : plugins[q].hooks}
  /\ LET cy == cycles[c]
         p == cy.i
         opts == ApplyRunnerChanges(linkOptions, outcome, p)
     IN IF outcome = "throw"
        THEN /\ thrower = 0
             /\ cycles' = [cycles EXCEPT ![c].pc = "failed", ![c].err = <<"SOR", p>>]
             /\ UNCHANGED <<linkOptions, child>>
        ELSE /\ linkOptions' = opts
             /\ IF p < NumPlugins
                THEN /\ thrower = 0
                     /\ cycles' = [cycles EXCEPT
                          ![c].i = NextPlugin(p),
                          ![c].trace = cy.trace \o UpdateCall(outcome, p, opts)
                                         \o CallStartOrRestartHook(NextPlugin(p), opts)]
                     /\ UNCHANGED child
                ELSE IF thrower # 0
                THEN /\ cycles' = [cycles EXCEPT
                          ![c].pc = "failed",
                          ![c].err = <<"BR", thrower>>,
                          ![c].unawaited = Unawaited(thrower),
                          ![c].trace = cy.trace \o UpdateCall(outcome, p, opts)
                                         \o BeforeRestartCalls(thrower, opts)]
                     /\ UNCHANGED child
                ELSE /\ cycles' = [cycles EXCEPT
                          ![c].pc = "awaitLink",
                          ![c].unawaited = Unawaited(0),
                          ![c].trace = cy.trace \o UpdateCall(outcome, p, opts)
                                         \o RestartTail(cy.change.file, opts)]
                     /\ child' = 0
  /\ dispatch' = NoDispatch
  /\ dropped' = 0
  /\ UNCHANGED <<plugins, restarting, paused, gotControls, matcher, promise>>

\* The awaitable plugin p's onBeforeWatcherRestart returned in cycle c, which
\* nothing awaits (lines 206-208), completes.
BeforeRestartSettles(c, p) ==
  /\ c \in DOMAIN cycles
  /\ p \in cycles[c].unawaited
  /\ cycles' = [cycles EXCEPT ![c].unawaited = @ \ {p}]
  /\ dispatch' = NoDispatch
  /\ dropped' = 0
  /\ UNCHANGED <<plugins, restarting, paused, linkOptions, child, gotControls, matcher, promise>>

\* restart(), lines 215-216: the await of link.startOrRestart() resumes;
\* restarting = false runs only when the promise was fulfilled.
RestartLinkSettle(c, ok) ==
  /\ c \in DOMAIN cycles
  /\ cycles[c].change.type # "init"
  /\ cycles[c].pc = "awaitLink"
  /\ IF ok
     THEN /\ restarting' = GuardAfterCycle
          /\ cycles' = [cycles EXCEPT ![c].pc = "done", ![c].resets = @ + 1]
          /\ child' = c
     ELSE /\ cycles' = [cycles EXCEPT ![c].pc = "failed", ![c].err = <<"link", 0>>]
          /\ UNCHANGED <<restarting, child>>
  /\ dispatch' = NoDispatch
  /\ dropped' = 0
  /\ UNCHANGED <<plugins, paused, linkOptions, gotControls, matcher, promise>>

(* ------------------------- the link's signal -------------------------- *)
\* The link: startOrRestart stops the running child and spawns a new one;
\* the child it spawned reports once that it listens, after startOrRestart
\* has settled and unless a later startOrRestart stopped it before.
ChildCanReport == child # 0 /\ ~cycles[child].listening

\* onServerListening, lines 47-53: the running child reports that it
\* listens, once. thrower is the plugin whose onAfterWatcherRestart throws
\* (the forEach ends there and watcher.resume() is not reached), 0 when none.
ServerListening(thrower) ==
  /\ ChildCanReport
  /\ thrower \in {0} \cup {q \in Plugins : plugins[q].hooks}
  /\ cycles' = [cycles EXCEPT
        ![child].listening = TRUE,
        ![child].trace = @ \o AfterRestartCalls(
            IF thrower = 0 THEN NumPlugins ELSE thrower, NoOptions)]
  /\ paused' = IF thrower = 0 THEN FALSE ELSE paused
  /\ dispatch' = NoDispatch
  /\ dropped' = 0
  /\ UNCHANGED <<plugins, restarting, linkOptions, child, gotControls, matcher, promise>>

(* ----------------------- the watcher's listeners ---------------------- *)
\* pluginIgnoreContributions, lines 78-84
RECURSIVE IgnoreContributions(_)
IgnoreContributions(n) ==
  IF n = 0 THEN << >> ELSE IgnoreContributions(n - 1) \o plugins[n].appIgnore

\* a core listener that ignores nothing
IgnoredByNone(file) == FALSE

\* isIgnoredByCoreListener = createPathMatcher({toMatch: pluginIgnoreContributions})
isIgnoredByCoreListener(file) ==
  createPathMatcher(IgnoreContributions(NumPlugins), << >>, file)

\* isMatchedByPluginListener of plugin p, lines 133-140
isMatchedByPluginListener(p, file) ==
  createPathMatcher(plugins[p].allow, plugins[p].ignore, file)

\* The plugins whose listener is registered (line 132).
Listeners == {p \in Plugins : plugins[p].handler}

\* The listeners an emitted event reaches: they run in registration order,
\* and an exception thrown by plugin thrower's handler leaves emit(), so
\* the listeners registered after it are not called.
Reached(thrower) == {p \in Listeners : thrower = 0 \/ p <= thrower}

\* One 'all' event of the watcher: the core listener (lines 103-113) and
\* then each plugin listener (lines 142-154). thrower is the plugin whose
\* onFileWatcherEvent throws, 0 when none does.
WatchEvent(kind, file, thrower) ==
  /\ ~paused
  /\ thrower \in {0} \cup {p \in Listeners : isMatchedByPluginListener(p, file)}
  /\ IF isIgnoredByCoreListener(file)
     THEN dropped' = 0 /\ UNCHANGED <<restarting, cycles>>
     ELSE RestartCall([type |-> kind, file |-> file])
  /\ LET delivered == {p \in Reached(thrower) : isMatchedByPluginListener(p, file)}
     IN /\ gotControls' = (gotControls \/ delivered # {})
        /\ dispatch' = [file |-> file,
                        restartCalled |-> ~isIgnoredByCoreListener(file),
                        offered |-> Reached(thrower),
                        delivered |-> delivered,
                        threw |-> thrower]
  /\ UNCHANGED <<plugins, paused, linkOptions, child, matcher, promise>>

(* ------------------------- plugin controls ---------------------------- *)
\* devModePluginLens is one object shared by all plugins; a plugin that was
\* handed it may call it at any later time, whichever plugin it is.
\* devModePluginLens.restart(file), lines 120-122
PluginRestart(file) ==
  /\ gotControls
  /\ RestartCall([type |-> "plugin", file |-> file])
  /\ dispatch' = NoDispatch
  /\ UNCHANGED <<plugins, paused, linkOptions, child, gotControls, matcher, promise>>

\* devModePluginLens.pause(), lines 123-125
PluginPause ==
  /\ gotControls
  /\ paused' = TRUE
  /\ dispatch' = NoDispatch
  /\ dropped' = 0
  /\ UNCHANGED <<plugins, restarting, cycles, linkOptions, child, gotControls, matcher, promise>>

\* devModePluginLens.resume(), lines 126-128
PluginResume ==
  /\ gotControls
  /\ paused' = FALSE
  /\ dispatch' = NoDispatch
  /\ dropped' = 0
  /\ UNCHANGED <<plugins, restarting, cycles, linkOptions, child, gotControls, matcher, promise>>

Next ==
  \/ \E c \in 1 .. MaxCycles, o \in {"none", "patch", "throw"} : InitHookResume(c, o)
  \/ \E c \in 1 .. MaxCycles, ok \in BOOLEAN : InitLinkSettle(c, ok)
  \/ \E c \in 1 .. MaxCycles, o \in {"none", "patch", "throw"}, t \in 0 .. NumPlugins :
        RestartHookResume(c, o, t)
  \/ \E c \in 1 .. MaxCycles, p \in Plugins : BeforeRestartSettles(c, p)
  \/ \E c \in 1 .. MaxCycles, ok \in BOOLEAN : RestartLinkSettle(c, ok)
  \/ \E t \in 0 .. NumPlugins : ServerListening(t)
  \/ \E k \in Kinds, f \in Files, t \in 0 .. NumPlugins : WatchEvent(k, f, t)
  \/ \E f \in Files : PluginRestart(f)
  \/ PluginPause
  \/ PluginResume

Spec == Init /\ [][Next]_vars

(* ------------------- hooks and link without failures ------------------ *)
\* The steps of the watcher when no hook or handler raises and every
\* link.startOrRestart is fulfilled.
HookReturns ==
  \/ \E c \in 1 .. MaxCycles, o \in {"none", "patch"} : InitHookResume(c, o)
  \/ \E c \in 1 .. MaxCycles, o \in {"none", "patch"} : RestartHookResume(c, o, 0)

LinkSettles ==
  \/ \E c \in 1 .. MaxCycles : InitLinkSettle(c, TRUE)
  \/ \E c \in 1 .. MaxCycles : RestartLinkSettle(c, TRUE)

LiveNext ==
  \/ HookReturns
  \/ LinkSettles
  \/ \E c \in 1 .. MaxCycles, p \in Plugins : BeforeRestartSettles(c, p)
  \/ ServerListening(0)
  \/ \E k \in Kinds, f \in Files : WatchEvent(k, f, 0)
  \/ \E f \in Files : PluginRestart(f)
  \/ PluginPause
  \/ PluginResume

\* An awaited hook that terminates and an awaited startOrRestart that
\* settles let the event loop resume the cycle that awaits them.
LiveSpec ==
  Init /\ [][LiveNext]_vars /\ WF_vars(HookReturns) /\ WF_vars(LinkSettles)

(* ----------------------- createPathMatcher alone ---------------------- *)
\* The pattern lists a matcher is built from: up to MaxPatterns globs each.
PatternLists == UNION {[1 .. n -> Globs] : n \in 0 .. MaxPatterns}

\* A matcher built from any allow list and any ignore list, and a path it
\* has not been asked about yet; the watcher is as createWatcher leaves it.
MatcherInit ==
  /\ matcher \in [toMatch : PatternLists, toIgnore : PatternLists, file : Paths,
                  asked : {FALSE}, answer : {FALSE}]
  /\ plugins = [p \in Plugins |-> PluginTs]
  /\ restarting = TRUE
  /\ paused = WatcherStartsPaused
  /\ linkOptions = NoOptions
  /\ cycles = << NewCycle(InitEvent, NoOptions) >>
  /\ child = 0
  /\ gotControls = FALSE
  /\ dropped = 0
  /\ dispatch = NoDispatch
  /\ promise = "pending"

\* The predicate createPathMatcher returned is applied to the path.
AskMatcher ==
  /\ ~matcher.asked
  /\ matcher' = [matcher EXCEPT
        !.asked = TRUE,
        !.answer = createPathMatcher(matcher.toMatch, matcher.toIgnore, matcher.file)]
  /\ UNCHANGED <<plugins, restarting, paused, cycles, linkOptions, child,
                 gotControls, dropped, dispatch, promise>>

MatcherNext == AskMatcher

MatcherSpec == MatcherInit /\ [][MatcherNext]_vars

(* ============================== claims ================================ *)
\* A cycle has set restarting = true and has not reset it.
Open(c) == cycles[c].resets = 0
\* A cycle is suspended at one of its awaits.
InFlight(c) == cycles[c].pc \in {"awaitSOR", "awaitLink"}
Last == Len(cycles)

\* C1: at most one cycle is in flight at any time: a cycle (init or restart)
\* passes the busy-guard only when no other cycle has set restarting = true
\* without resetting it, and restarting is true whenever such a cycle exists.
C1_OneCycleInFlight ==
  /\ \A c, d \in DOMAIN cycles : Open(c) /\ Open(d) => c = d
  /\ (\E c \in DOMAIN cycles : Open(c)) => restarting

\* A restart cycle is in flight and restart calls were turned away at the
\* busy-guard meanwhile.
C1_Witness ==
  /\ Last >= 2
  /\ InFlight(Last)
  /\ dropped >= 1
  /\ dispatch.restartCalled

\* Each cycle reset the flag at most once, exactly the cycles that ran to
\* their end did, and the flag is false iff every accepted cycle did.
ResetsOncePerCycle ==
  /\ \A c \in DOMAIN cycles :
        /\ cycles[c].resets \in {0, 1}
        /\ cycles[c].resets = 1 <=> cycles[c].pc = "done"
  /\ Cardinality({c \in DOMAIN cycles : cycles[c].resets = 1})
       = Len(cycles) - (IF restarting THEN 1 ELSE 0)

\* A step that calls restart(): a plugin's controls.restart(file), or a watch
\* event the core listener does not ignore.
RestartTrigger ==
  \/ \E f \in Files : PluginRestart(f)
  \/ \E k \in Kinds, f \in Files, t \in 0 .. NumPlugins :
        ~isIgnoredByCoreListener(f) /\ WatchEvent(k, f, t)

Phase(call) ==
  CASE call[1] \in {"SOR", "update"} -> 1
    [] call[1] = "BR" -> 2
    [] call[1] \in {"init", "compileChanged"} -> 3
    [] call[1] = "start" -> 4
    [] call[1] = "AR" -> 5

\* The plugins a trace calls the hook `what` of, in the order of the calls.
Called(trace, what) ==
  LET sel == SelectSeq(trace, LAMBDA e : e[1] = what)
  IN [k \in 1 .. Len(sel) |-> sel[k][2]]

AllHooked == HookedUpTo(NumPlugins)

\* C3: in every cycle the calls are in phase order and, within a hook
\* phase, in registration order; when a restart cycle reaches
\* link.startOrRestart, every plugin's onBeforeWatcherStartOrRestart and
\* every plugin's onBeforeWatcherRestart was called, and the compiler; the
\* onAfterWatcherRestart hooks of a cycle come after its startOrRestart.
C3_PhaseOrder ==
  \A c \in DOMAIN cycles :
    LET tr == cycles[c].trace IN
    /\ \A j, k \in DOMAIN tr :
          j < k => /\ Phase(tr[j]) <= Phase(tr[k])
                   /\ (tr[j][1] = tr[k][1] /\ tr[j][2] # 0) => tr[j][2] < tr[k][2]
    /\ (cycles[c].change.type # "init" /\ cycles[c].pc \in {"awaitLink", "done"})
          => /\ Called(tr, "SOR") = AllHooked
             /\ Called(tr, "BR") = AllHooked
             /\ Called(tr, "compileChanged") = <<0>>
             /\ Called(tr, "start") = <<0>>
    /\ cycles[c].listening
          => /\ Called(tr, "start") = <<0>>
             /\ Called(tr, "AR") \in {HookedUpTo(t) : t \in 0 .. NumPlugins}

\* A restart cycle of two hooked plugins ran all five phases.
C3_Witness ==
  \E c \in DOMAIN cycles :
    /\ cycles[c].change.type # "init"
    /\ cycles[c].listening
    /\ Called(cycles[c].trace, "AR") = AllHooked
    /\ Len(AllHooked) >= 2

\* A hook of the two before-phases raised in cycle c.
HookRaised(c) == cycles[c].err[1] \in {"SOR", "BR"}
\* Cycle c was left by an exception: nothing after the raising call ran.
Aborted(c) == cycles[c].pc = "failed"

\* C4: a plugin's onBeforeWatcherStartOrRestart or onBeforeWatcherRestart
\* that raises does not abort the restart cycle: the remaining plugins'
\* hooks of the phase, the compiler and link.startOrRestart still run.
C4_HookIsolation ==
  \A c \in DOMAIN cycles : HookRaised(c) => ~Aborted(c)

\* C5: when link.startOrRestart rejects, the busy-guard is released: after
\* the failed cycle restarting is false.
C5_GuardReleasedOnLinkFailure ==
  \A c \in DOMAIN cycles : cycles[c].err[1] = "link" => ~restarting

\* C6: from the moment a restart cycle is accepted until the
\* onAfterWatcherRestart hooks have run for its readiness signal, the
\* watcher is paused.
C6_PausedDuringRestart ==
  \A c \in DOMAIN cycles :
    (cycles[c].change.type # "init" /\ ~cycles[c].listening) => paused

\* The init cycle (the first one) has not completed.
InitRunning == InFlight(1)

\* C7: exactly one init cycle runs, and while it has not completed no watch
\* event is processed: no restart cycle is begun for one and no plugin's
\* onFileWatcherEvent is invoked with one.
C7_NoWatchEventBeforeInitDone ==
  /\ Cardinality({c \in DOMAIN cycles : cycles[c].change.type = "init"}) = 1
  /\ InitRunning => (Len(cycles) = 1 /\ dispatch.delivered = {})

\* The calls of a trace up to link.startOrRestart (the before-phases).
RECURSIVE UpToStart(_)
UpToStart(tr) ==
  IF tr = << >> THEN << >>
  ELSE IF Head(tr)[1] = "start" THEN << Head(tr) >>
  ELSE << Head(tr) >> \o UpToStart(Tail(tr))

\* C8: the runner changes plugin i returns are merged into the link's
\* options right after its hook and before the next call: each call sees
\* the options the call before it saw, changed only by an updateOptions, and
\* an updateOptions of plugin p follows p's hook at once and leaves p's
\* changes merged into the options; so link.startOrRestart sees the patches
\* applied in registration order.
C8_PatchesInRegistrationOrder ==
  \A c \in DOMAIN cycles :
    LET tr == UpToStart(cycles[c].trace) IN
    \A k \in DOMAIN tr :
      /\ tr[k][1] = "update"
            => /\ k > 1
               /\ tr[k - 1][1] = "SOR"
               /\ tr[k - 1][2] = tr[k][2]
               /\ tr[k][3] = updateOptions(tr[k - 1][3], RunnerChanges(tr[k][2]))
      /\ (tr[k][1] # "update" /\ k > 1) => tr[k][3] = tr[k - 1][3]

\* Both plugins returned runner changes in one restart cycle and
\* link.startOrRestart was called with the second plugin's on top.
C8_Witness ==
  \E c \in DOMAIN cycles :
    /\ cycles[c].change.type # "init"
    /\ Called(cycles[c].trace, "update") = <<1, 2>>
    /\ \E k \in DOMAIN cycles[c].trace :
          /\ cycles[c].trace[k][1] = "start"
          /\ cycles[c].trace[k][3] = RunnerChanges(2)

\* Restart cycle c has passed the compiler step for its file.
Compiled(c) ==
  cycles[c].change.type # "init" /\ cycles[c].pc \in {"awaitLink", "done"}

C10_IndependentDelivery ==
  dispatch.file # NoFile =>
    /\ dispatch.restartCalled = ~isIgnoredByCoreListener(dispatch.file)
    /\ dispatch.delivered
         = {p \in Listeners : isMatchedByPluginListener(p, dispatch.file)}

\* The path satisfies one of the patterns (each glob matched on its own).
Satisfies(path, patterns) ==
  \E k \in DOMAIN patterns : GlobMatch(patterns[k], path)

\* C11: a matcher built from a non-empty allow list answers true for a path
\* iff the path satisfies at least one allow pattern and no ignore pattern;
\* with allow src/**/*.ts and ignore src/**/*.test.ts, src/a.ts matches and
\* src/a.test.ts, lib/a.ts and tsconfig.json do not.
C11_DenyWinsOverAllow ==
  (matcher.asked /\ matcher.toMatch # << >>) =>
    /\ matcher.answer = (/\ Satisfies(matcher.file, matcher.toMatch)
                         /\ ~Satisfies(matcher.file, matcher.toIgnore))
    /\ (matcher.toMatch = <<GlobSrcTs>> /\ matcher.toIgnore = <<GlobSrcTestTs>>)
          => (matcher.answer <=> matcher.file = SrcATs)

\* The matcher of allow src/**/*.ts and ignore src/**/*.test.ts was asked
\* about src/a.test.ts, which both patterns match, and rejected it.
C11_Witness ==
  /\ matcher.asked
  /\ matcher.toMatch = <<GlobSrcTs>>
  /\ matcher.toIgnore = <<GlobSrcTestTs>>
  /\ matcher.file = SrcATestTs
  /\ ~matcher.answer

\* C12: a matcher built with no allow patterns answers true for every path
\* that satisfies none of its ignore patterns.
C12_EmptyAllowMatchesAll ==
  (matcher.asked /\ matcher.toMatch = << >>) =>
    (matcher.answer <=> ~Satisfies(matcher.file, matcher.toIgnore))

\* The app ignore patterns the plugins contribute, all plugins together.
AppIgnorePatterns ==
  UNION {{plugins[p].appIgnore[k] : k \in DOMAIN plugins[p].appIgnore} : p \in Plugins}

\* C13: for every watch event the core listener calls restart(event) iff
\* the file matches none of the app ignore patterns the plugins contribute:
\* an ignored event changes neither the flag nor the cycles, another one
\* enters restart() (it begins a cycle for that event or is turned away by
\* the busy-guard); when no plugin contributes a pattern, every event does.
C13_RestartUnlessAppIgnored ==
  [][ dispatch'.file # NoFile =>
        LET file == dispatch'.file
            ignored == \E g \in AppIgnorePatterns : GlobMatch(g, file)
        IN /\ dispatch'.restartCalled = ~ignored
           /\ AppIgnorePatterns = {} => dispatch'.restartCalled
           /\ ignored => (UNCHANGED <<restarting, cycles>> /\ dropped' = 0)
           /\ ~ignored =>
                IF restarting
                THEN dropped' >= 1 /\ UNCHANGED <<restarting, cycles>>
                ELSE /\ restarting'
                     /\ cycles' = Append(cycles,
                           NewCycle([type |-> "change", file |-> file], linkOptions)) ]_vars

\* The first plugin contributes the app ignore pattern src/** and a watch
\* event for src/a.ts did not reach restart().
C13_Witness ==
  /\ dispatch.file = SrcATs
  /\ plugins[1].appIgnore = <<GlobSrcAll>>
  /\ ~dispatch.restartCalled

\* C14: when the compiler and link.startOrRestart have been called in a
\* restart cycle, every onBeforeWatcherRestart hook of the cycle has
\* completed, the awaitable it returned included; and no
\* onBeforeWatcherRestart hook is called before every plugin's
\* onBeforeWatcherStartOrRestart has been called and awaited.
C14_BeforeRestartAwaited ==
  \A c \in DOMAIN cycles :
    /\ Compiled(c) => cycles[c].unawaited = {}
    /\ Called(cycles[c].trace, "BR") # << >>
          => /\ Called(cycles[c].trace, "SOR") = AllHooked
             /\ cycles[c].pc # "awaitSOR"

\* The init cycle c has reached link.startOrRestart.
InitStarted(c) ==
  cycles[c].change.type = "init" /\ cycles[c].pc \in {"awaitLink", "done"}

C16_IdleAfterAfterRestartHooks ==
  \A c \in DOMAIN cycles :
    cycles[c].resets = 1 =>
      /\ cycles[c].pc = "done"
      /\ cycles[c].listening
      /\ Called(cycles[c].trace, "AR") = AllHooked

\* C17: when a plugin's onFileWatcherEvent raises for a watch event, the
\* event still reaches the core listener and every other registered plugin
\* listener (the exception does not leave the dispatch), and every other
\* plugin whose matcher accepts the file has its handler invoked.
C17_ListenerIsolation ==
  dispatch.threw # 0 =>
    /\ dispatch.restartCalled = ~isIgnoredByCoreListener(dispatch.file)
    /\ dispatch.offered = Listeners
    /\ \A p \in Listeners \ {dispatch.threw} :
          isMatchedByPluginListener(p, dispatch.file) => p \in dispatch.delivered

\* C18: when every hook terminates without error and every
\* link.startOrRestart is fulfilled, every accepted cycle (init or restart)
\* runs to its end and sets restarting back to false; and a restart trigger
\* that arrives while restarting is false is accepted: a cycle begins for it.
C18_GuardLiveness ==
  /\ \A c \in 1 .. MaxCycles :
        (c \in DOMAIN cycles /\ Open(c))
          ~> (c \in DOMAIN cycles /\ cycles[c].pc = "done" /\ ~restarting)
  /\ restarting ~> ~restarting
  /\ [][ (~restarting /\ RestartTrigger)
            => (restarting' /\ Len(cycles') = Len(cycles) + 1) ]_vars

\* The init cycle and a restart cycle accepted after it have both set
\* restarting back to false.
C18_Witness ==
  /\ Last >= 2
  /\ \A c \in DOMAIN cycles : cycles[c].pc = "done"
  /\ ~restarting

\* C19: every readiness signal (onServerListening, for the initial start
\* or a restart) leaves the watcher resumed, whether or not a plugin had
\* paused it; and one controls.resume() resumes it however many
\* controls.pause() calls came before.
C19_ReadinessResumes ==
  [][ /\ (\E t \in 0 .. NumPlugins : ServerListening(t)) => ~paused'
      /\ PluginResume => ~paused' ]_vars

\* C20: the promise createWatcher returned never settles: it is pending
\* after the initial start completed, after it was left by an exception of
\* a hook or of link.startOrRestart, and after any later restart cycle.
C20_PromiseNeverSettles == promise = "pending"

\* The initial start completed and a restart cycle after it did, and the
\* promise is pending.
C20_Witness ==
  /\ Last >= 2
  /\ cycles[1].pc = "done"
  /\ cycles[Last].pc = "done"
  /\ promise = "pending"

====
